---- MODULE Spec2Model ----
(***************************************************************************)
(* The PrivacyLearning contract (Solidity ^0.8.19) as a state machine.     *)
(*                                                                         *)
(* One action per external function.  A transaction either runs to its end *)
(* or reverts: a failing require leaves storage as it was and the          *)
(* transaction's receipt carries no log.  `result` is the outcome of the   *)
(* last transaction (OK or the revert string) and `logs` the events of its *)
(* receipt, in emission order.                                             *)
(*                                                                         *)
(* Solidity mappings hold a default (zero) value under every key that was  *)
(* never written.  They are modelled by their non-default entries only:    *)
(* lessonCompleted is the set of <<moduleId, lessonId>> pairs stored true, *)
(* moduleProgress a function whose domain is the keys with a non-zero      *)
(* value.  Writing the default value removes the key, as in storage.       *)
(*                                                                         *)
(* emergencyWithdraw moves the contract's ether balance only and is left   *)
(* out: no function is payable and no other function reads the balance.    *)
(*                                                                         *)
(* The page of public/app.js is a second process: its handlers             *)
(* updateProgress and loadBlockchainProgress run from await to await, its  *)
(* transactions are mined one at a time in an order it does not control.   *)
(***************************************************************************)
EXTENDS Integers, Sequences, FiniteSets

VARIABLES
    owner,            \* address public owner
    moduleCount,      \* uint8 public moduleCount
    learningModules,  \* mapping(uint8 => LearningModule), keys 0..moduleCount-1
    studentProgress,  \* mapping(address => StudentProgress)
    today,            \* block.timestamp / 86400 of the block being executed
    result,           \* outcome of the last transaction
    logs,             \* events emitted by the last transaction
    enrolledOn,       \* history: day of each account's successful enrollStudent
    activeDays,       \* history: days of each account's successful
                      \* completeLesson(_, _, true) calls
    frontend          \* public/app.js: the handler in progress in the page of
                      \* the connected account and what it has sent and seen

vars == <<owner, moduleCount, learningModules, studentProgress, today, result,
          logs, enrolledOn, activeDays, frontend>>

-----------------------------------------------------------------------------
(* Program constants *)

LESSONS_PER_MODULE == 4

InitialModuleCount == 4

MaxModuleCount == 255

LessonShare == 25

FullProgress == 100

\* Largest value of a uint8 (the loop counters, moduleCount, the ids).
Uint8Max == 255

\* 2^16: a uint32 (the progress accumulators, the streak) is two such halves.
Uint16Range == 65536

(* Model bounds *)

MaxModules == 5

StartDay == 8

Horizon == 1

StreakHorizon == 7

ClockHorizon == 3

NoDay == 0 - 1

Deployer == "owner"

Accounts == {"owner", "alice", "bob"}

-----------------------------------------------------------------------------
(* Outcomes of a transaction: the revert strings of the require statements *)

OK == "ok"

AlreadyEnrolled == "Already enrolled"

NotEnrolled == "Student not enrolled"

UnknownModule == "Invalid module ID"

UnknownLesson == "Invalid lesson ID"

ModuleInactive == "Module not active"

NotOwner == "Only owner can call this function"

CapacityExceeded == "Maximum modules reached"

\* Checked arithmetic of Solidity 0.8: an overflow reverts with Panic(0x11),
\* a division by zero with Panic(0x12).
ArithmeticPanic == "Panic(0x11)"

DivisionPanic == "Panic(0x12)"

FitsUint8(x) == x \in 0..Uint8Max

FitsUint32(x) == x >= 0 /\ x \div Uint16Range < Uint16Range

(* Events *)

StudentEnrolled(student) == <<"StudentEnrolled", student>>

LessonCompleted(student, moduleId, lessonId) ==
    <<"LessonCompleted", student, moduleId, lessonId>>

ModuleCompleted(student, moduleId) == <<"ModuleCompleted", student, moduleId>>

ProgressUpdated(student) == <<"ProgressUpdated", student>>

-----------------------------------------------------------------------------
(* Storage helpers *)

\* Read of a mapping(uint8 => uint32): zero under a key never written.
MapGet(f, k) == IF k \in DOMAIN f THEN f[k] ELSE 0

\* Write of a mapping(uint8 => uint32).
MapPut(f, k, v) ==
    IF v = 0
    THEN [x \in DOMAIN f \ {k} |-> f[x]]
    ELSE [x \in DOMAIN f \cup {k} |-> IF x = k THEN v ELSE f[x]]

\* Mutant of FlagPut: a flag once set is never cleared.
FlagPutOneWay(flags, m, l, c) ==
    IF c THEN flags \cup {<<m, l>>} ELSE flags

\* Mutant of FlagPut: setting a lesson clears the other lessons of its
\* module.
FlagPutExclusive(flags, m, l, c) ==
    IF c THEN {p \in flags : p[1] # m} \cup {<<m, l>>} ELSE flags \ {<<m, l>>}

\* Write of lessonCompleted[m][l] = c.
FlagPut(flags, m, l, c) ==
    IF c THEN flags \cup {<<m, l>>} ELSE flags \ {<<m, l>>}

LearningModule(name, totalLessons, isActive) ==
    [name |-> name, totalLessons |-> totalLessons, isActive |-> isActive]

\* The zero value of struct StudentProgress.
EmptyProgress ==
    [lessonCompleted |-> {},
     moduleProgress |-> <<>>,
     totalProgress |-> 0,
     completedLessons |-> 0,
     learningStreak |-> 0,
     lastActiveDay |-> 0,
     isEnrolled |-> FALSE]

\* initializeModules(): the four modules of the constructor.
initializeModules ==
    [i \in 0..(InitialModuleCount - 1) |->
        LearningModule(
            CASE i = 0 -> "Cryptography Basics"
              [] i = 1 -> "Blockchain Fundamentals"
              [] i = 2 -> "Privacy Technologies"
              [] OTHER -> "Advanced Applications",
            LESSONS_PER_MODULE, TRUE)]

-----------------------------------------------------------------------------
(* _updateProgress, loop by loop *)

\* Mutant of CompletedInModule: the loop stops one lesson short.
CompletedInModuleShort(flags, m) ==
    Cardinality({i \in 0..(LESSONS_PER_MODULE - 2) : <<m, i>> \in flags})

\* Lines 102-108: lessons of module m stored true among 0..LESSONS_PER_MODULE-1.
CompletedInModule(flags, m) ==
    Cardinality({i \in 0..(LESSONS_PER_MODULE - 1) : <<m, i>> \in flags})

\* Line 111: completedInModule * 25.
ModuleProgressPercent(completedInModule) == completedInModule * LessonShare

RECURSIVE SumProgressFromOne(_, _)
\* Mutant of SumProgress: the loop starts at module 1.
SumProgressFromOne(mp, n) ==
    IF n <= 1 THEN 0 ELSE SumProgressFromOne(mp, n - 1) + MapGet(mp, n - 1)

RECURSIVE SumProgress(_, _)
\* Lines 115-118: sum of moduleProgress[i] for i < n.
SumProgress(mp, n) ==
    IF n = 0 THEN 0 ELSE SumProgress(mp, n - 1) + MapGet(mp, n - 1)

\* Lines 124-131: flags stored true for i < n, j < LESSONS_PER_MODULE.
TotalCompleted(flags, n) ==
    Cardinality({p \in flags : p[1] < n /\ p[2] < LESSONS_PER_MODULE})

\* Mutant of _updateProgress: completedLessons is added to, not overwritten.
_updateProgressAccumulating(p, m, count) ==
    LET percent == ModuleProgressPercent(CompletedInModule(p.lessonCompleted, m))
        mp == MapPut(p.moduleProgress, m, percent)
    IN  [p EXCEPT !.moduleProgress = mp,
                  !.totalProgress = SumProgress(mp, count) \div count,
                  !.completedLessons =
                      @ + TotalCompleted(p.lessonCompleted, count)]

\* Mutant of _updateProgress: the mean is rounded up instead of truncated.
_updateProgressCeiling(p, m, count) ==
    LET percent == ModuleProgressPercent(CompletedInModule(p.lessonCompleted, m))
        mp == MapPut(p.moduleProgress, m, percent)
    IN  [p EXCEPT !.moduleProgress = mp,
                  !.totalProgress =
                      (SumProgress(mp, count) + count - 1) \div count,
                  !.completedLessons = TotalCompleted(p.lessonCompleted, count)]

\* Mutant of _updateProgress: the record is rebuilt from the zero value and
\* loses its isEnrolled flag.
_updateProgressFreshRecord(p, m, count) ==
    LET percent == ModuleProgressPercent(CompletedInModule(p.lessonCompleted, m))
        mp == MapPut(p.moduleProgress, m, percent)
    IN  [EmptyProgress EXCEPT
            !.lessonCompleted = p.lessonCompleted,
            !.learningStreak = p.learningStreak,
            !.lastActiveDay = p.lastActiveDay,
            !.moduleProgress = mp,
            !.totalProgress = SumProgress(mp, count) \div count,
            !.completedLessons = TotalCompleted(p.lessonCompleted, count)]

\* The storage writes of _updateProgress(_moduleId) on the sender's record.
_updateProgress(p, m, count) ==
    LET percent == ModuleProgressPercent(CompletedInModule(p.lessonCompleted, m))
        mp == MapPut(p.moduleProgress, m, percent)
    IN  [p EXCEPT !.moduleProgress = mp,
                  !.totalProgress = SumProgress(mp, count) \div count,
                  !.completedLessons = TotalCompleted(p.lessonCompleted, count)]

\* Lines 101-131 under checked arithmetic: the panic _updateProgress stops
\* with, OK when every counter and accumulator fits its type.  A loop
\* counter ends at its bound, an accumulator at the value it holds last.
_updateProgressPanic(p, m, count) ==
    LET completedInModule == CompletedInModule(p.lessonCompleted, m)
        percent == ModuleProgressPercent(completedInModule)
        mp == MapPut(p.moduleProgress, m, percent)
    IN  IF \/ ~FitsUint8(LESSONS_PER_MODULE)
           \/ ~FitsUint32(completedInModule)
           \/ ~FitsUint32(percent)
           \/ ~FitsUint8(count)
           \/ ~FitsUint32(SumProgress(mp, count))
        THEN ArithmeticPanic
        ELSE IF count = 0 THEN DivisionPanic
        ELSE IF ~FitsUint32(TotalCompleted(p.lessonCompleted, count))
        THEN ArithmeticPanic
        ELSE OK

\* Mutant of ProgressEvents: ModuleCompleted is emitted from 75 percent on.
ProgressEventsEarly(sender, m, percent) ==
    (IF percent >= FullProgress - LessonShare
     THEN <<ModuleCompleted(sender, m)>> ELSE <<>>)
        \o <<ProgressUpdated(sender)>>

\* Mutant of ProgressEvents: ProgressUpdated is emitted before ModuleCompleted.
ProgressEventsSwapped(sender, m, percent) ==
    <<ProgressUpdated(sender)>>
        \o (IF percent = FullProgress
            THEN <<ModuleCompleted(sender, m)>> ELSE <<>>)

\* Lines 134-139: the events of _updateProgress, given the stored percentage.
ProgressEvents(sender, m, percent) ==
    (IF percent = FullProgress THEN <<ModuleCompleted(sender, m)>> ELSE <<>>)
        \o <<ProgressUpdated(sender)>>

\* Mutant of StreakUpdate: a gap in days does not reset the streak.
StreakUpdateNoReset(p, currentDay, completed) ==
    IF currentDay > p.lastActiveDay /\ completed
    THEN [p EXCEPT !.learningStreak = p.learningStreak + 1,
                   !.lastActiveDay = currentDay]
    ELSE p

\* Mutant of StreakUpdate: a completion on the day already recorded counts
\* as a later day.
StreakUpdateSameDay(p, currentDay, completed) ==
    IF currentDay >= p.lastActiveDay /\ completed
    THEN [p EXCEPT !.learningStreak =
                       IF currentDay = p.lastActiveDay + 1
                       THEN p.learningStreak + 1
                       ELSE 1,
                   !.lastActiveDay = currentDay]
    ELSE p

\* Mutant of StreakUpdate: any day other than the recorded one is taken as
\* a later day.
StreakUpdateAnyDay(p, currentDay, completed) ==
    IF currentDay # p.lastActiveDay /\ completed
    THEN [p EXCEPT !.learningStreak =
                       IF currentDay = p.lastActiveDay + 1
                       THEN p.learningStreak + 1
                       ELSE 1,
                   !.lastActiveDay = currentDay]
    ELSE p

\* Mutant of StreakUpdate: lastActiveDay follows every call of a later day,
\* the streak only the calls with _completed = true.
StreakUpdateDayOnAnyCall(p, currentDay, completed) ==
    IF currentDay > p.lastActiveDay
    THEN [p EXCEPT !.learningStreak =
                       IF ~completed THEN p.learningStreak
                       ELSE IF currentDay = p.lastActiveDay + 1
                       THEN p.learningStreak + 1
                       ELSE 1,
                   !.lastActiveDay = currentDay]
    ELSE p

\* Mutant of StreakUpdate: the write of lastActiveDay (line 93) is left out.
StreakUpdateKeepsDay(p, currentDay, completed) ==
    IF completed /\ currentDay > p.lastActiveDay
    THEN [p EXCEPT !.learningStreak =
                       IF currentDay = p.lastActiveDay + 1
                       THEN p.learningStreak + 1
                       ELSE 1]
    ELSE p

\* Lines 84-94: the streak update of completeLesson.
StreakUpdate(p, currentDay, completed) ==
    IF currentDay > p.lastActiveDay /\ completed
    THEN [p EXCEPT !.learningStreak =
                       IF currentDay = p.lastActiveDay + 1
                       THEN p.learningStreak + 1
                       ELSE 1,
                   !.lastActiveDay = currentDay]
    ELSE p

\* Mutant of EnrollRecord: lastActiveDay is left at its zero value.
EnrollRecordNoDay(p, currentDay, count) ==
    [p EXCEPT !.isEnrolled = TRUE,
              !.totalProgress = 0,
              !.completedLessons = 0,
              !.learningStreak = 0,
              !.moduleProgress = [k \in DOMAIN p.moduleProgress
                                        \ (0..(count - 1)) |-> p.moduleProgress[k]]]

\* Lines 60-69: the record enrollStudent writes.
EnrollRecord(p, currentDay, count) ==
    [p EXCEPT !.isEnrolled = TRUE,
              !.totalProgress = 0,
              !.completedLessons = 0,
              !.learningStreak = 0,
              !.lastActiveDay = currentDay,
              !.moduleProgress = [k \in DOMAIN p.moduleProgress
                                        \ (0..(count - 1)) |-> p.moduleProgress[k]]]

-----------------------------------------------------------------------------
(* Transactions *)

\* A failing require: the transaction reverts.
Revert(reason) ==
    /\ result' = reason
    /\ logs' = <<>>
    /\ UNCHANGED <<owner, moduleCount, learningModules, studentProgress, today,
                   enrolledOn, activeDays>>

\* Mutant of onlyOwner: the modifier lets every sender through.
onlyOwnerSkipped(sender) == TRUE

\* modifier onlyOwner
onlyOwner(sender) == sender = owner

\* Mutant of onlyEnrolled: the modifier lets every sender through.
onlyEnrolledSkipped(sender) == TRUE

\* modifier onlyEnrolled
onlyEnrolled(sender) == studentProgress[sender].isEnrolled

\* Mutant of enrollStudent: the require is missing, enrolling again resets.
enrollStudentAgain(sender) ==
    /\ studentProgress' =
            [studentProgress EXCEPT
                ![sender] = EnrollRecord(@, today, moduleCount)]
    /\ enrolledOn' = [enrolledOn EXCEPT ![sender] = today]
    /\ result' = OK
    /\ logs' = <<StudentEnrolled(sender)>>
    /\ UNCHANGED <<owner, moduleCount, learningModules, today, activeDays>>

\* Lines 60-69: the storage after enrollStudent's writes, given the storage
\* before them.
enrollStudentWrites(sp, sender) ==
    [sp EXCEPT ![sender] = EnrollRecord(@, today, moduleCount)]

\* Lines 66-69 under checked arithmetic: the uint8 counter ends at moduleCount.
enrollStudentPanic == IF FitsUint8(moduleCount) THEN OK ELSE ArithmeticPanic

enrollStudent(sender) ==
    IF studentProgress[sender].isEnrolled
    THEN Revert(AlreadyEnrolled)
    ELSE IF enrollStudentPanic # OK THEN Revert(enrollStudentPanic)
    ELSE /\ studentProgress' = enrollStudentWrites(studentProgress, sender)
         /\ enrolledOn' = [enrolledOn EXCEPT ![sender] = today]
         /\ result' = OK
         /\ logs' = <<StudentEnrolled(sender)>>
         /\ UNCHANGED <<owner, moduleCount, learningModules, today, activeDays>>

\* Mutant of completeLesson: the flag is stored before the isActive check and
\* the failure does not undo it.
completeLessonLateCheck(sender, _moduleId, _lessonId, _completed) ==
    IF ~onlyEnrolled(sender) THEN Revert(NotEnrolled)
    ELSE IF ~(_moduleId < moduleCount) THEN Revert(UnknownModule)
    ELSE IF ~(_lessonId < LESSONS_PER_MODULE) THEN Revert(UnknownLesson)
    ELSE LET p0 == studentProgress[sender]
             p1 == [p0 EXCEPT !.lessonCompleted =
                        FlagPut(@, _moduleId, _lessonId, _completed)]
             p2 == StreakUpdate(p1, today, _completed)
             p3 == _updateProgress(p2, _moduleId, moduleCount)
             active == learningModules[_moduleId].isActive
         IN  /\ studentProgress' =
                    [studentProgress EXCEPT
                        ![sender] = IF active THEN p3 ELSE p1]
             /\ result' = IF active THEN OK ELSE ModuleInactive
             /\ logs' = IF active
                        THEN <<LessonCompleted(sender, _moduleId, _lessonId)>>
                             \o ProgressEvents(sender, _moduleId,
                                     MapGet(p3.moduleProgress, _moduleId))
                        ELSE <<>>
             /\ activeDays' =
                    [activeDays EXCEPT ![sender] =
                        IF _completed /\ active THEN @ \cup {today} ELSE @]
             /\ UNCHANGED <<owner, moduleCount, learningModules, today,
                            enrolledOn>>

\* Mutant of completeLessonRequire: the isActive check is missing.
completeLessonRequireNoActive(sender, _moduleId, _lessonId) ==
    IF ~onlyEnrolled(sender) THEN NotEnrolled
    ELSE IF ~(_moduleId < moduleCount) THEN UnknownModule
    ELSE IF ~(_lessonId < LESSONS_PER_MODULE) THEN UnknownLesson
    ELSE OK

\* Mutant of completeLessonWrites: the streak fields are shared, every
\* enrolled account's lastActiveDay and learningStreak follow the sender's.
completeLessonWritesSharedStreak(sp, sender, _moduleId, _lessonId, _completed) ==
    LET p0 == sp[sender]
        p1 == [p0 EXCEPT !.lessonCompleted =
                   FlagPut(@, _moduleId, _lessonId, _completed)]
        p2 == StreakUpdate(p1, today, _completed)
        p3 == _updateProgress(p2, _moduleId, moduleCount)
    IN  [a \in DOMAIN sp |->
            IF a = sender THEN p3
            ELSE IF sp[a].isEnrolled
            THEN [sp[a] EXCEPT !.learningStreak = p3.learningStreak,
                               !.lastActiveDay = p3.lastActiveDay]
            ELSE sp[a]]

\* Lines 79-97: the storage after completeLesson's writes, given the storage
\* before them.
completeLessonWrites(sp, sender, _moduleId, _lessonId, _completed) ==
    LET p0 == sp[sender]
        p1 == [p0 EXCEPT !.lessonCompleted =
                   FlagPut(@, _moduleId, _lessonId, _completed)]
        p2 == StreakUpdate(p1, today, _completed)
        p3 == _updateProgress(p2, _moduleId, moduleCount)
    IN  [sp EXCEPT ![sender] = p3]

\* Modifier and lines 75-77: the first failing require of completeLesson, OK
\* when all four hold.
completeLessonRequire(sender, _moduleId, _lessonId) ==
    IF ~onlyEnrolled(sender) THEN NotEnrolled
    ELSE IF ~(_moduleId < moduleCount) THEN UnknownModule
    ELSE IF ~(_lessonId < LESSONS_PER_MODULE) THEN UnknownLesson
    ELSE IF ~learningModules[_moduleId].isActive THEN ModuleInactive
    ELSE OK

\* Lines 81-97 under checked arithmetic: the panic completeLesson stops with
\* once its requires hold, OK when there is none.
completeLessonPanic(sender, _moduleId, _lessonId, _completed) ==
    LET p0 == studentProgress[sender]
        p1 == [p0 EXCEPT !.lessonCompleted =
                   FlagPut(@, _moduleId, _lessonId, _completed)]
    IN  IF /\ _completed
           /\ today = p0.lastActiveDay + 1
           /\ ~FitsUint32(p0.learningStreak + 1)
        THEN ArithmeticPanic
        ELSE _updateProgressPanic(p1, _moduleId, moduleCount)

completeLesson(sender, _moduleId, _lessonId, _completed) ==
    IF completeLessonRequire(sender, _moduleId, _lessonId) # OK
    THEN Revert(completeLessonRequire(sender, _moduleId, _lessonId))
    ELSE IF completeLessonPanic(sender, _moduleId, _lessonId, _completed) # OK
    THEN Revert(completeLessonPanic(sender, _moduleId, _lessonId, _completed))
    ELSE LET sp == completeLessonWrites(studentProgress, sender,
                                        _moduleId, _lessonId, _completed)
             p3 == sp[sender]
         IN  /\ studentProgress' = sp
             /\ result' = OK
             /\ logs' = <<LessonCompleted(sender, _moduleId, _lessonId)>>
                        \o ProgressEvents(sender, _moduleId,
                                          MapGet(p3.moduleProgress, _moduleId))
             /\ activeDays' =
                    [activeDays EXCEPT ![sender] =
                        IF _completed THEN @ \cup {today} ELSE @]
             /\ UNCHANGED <<owner, moduleCount, learningModules, today,
                            enrolledOn>>

\* Mutant of addModule: the capacity check is off by one.
addModuleOffByOne(sender, _name, _totalLessons) ==
    IF ~onlyOwner(sender) THEN Revert(NotOwner)
    ELSE IF ~(moduleCount <= MaxModuleCount) THEN Revert(CapacityExceeded)
    ELSE /\ learningModules' =
                [i \in 0..moduleCount |->
                    IF i = moduleCount
                    THEN LearningModule(_name, _totalLessons, TRUE)
                    ELSE learningModules[i]]
         /\ moduleCount' = moduleCount + 1
         /\ result' = OK
         /\ logs' = <<>>
         /\ UNCHANGED <<owner, studentProgress, today, enrolledOn, activeDays>>

addModule(sender, _name, _totalLessons) ==
    IF ~onlyOwner(sender) THEN Revert(NotOwner)
    ELSE IF ~(moduleCount < MaxModuleCount) THEN Revert(CapacityExceeded)
    ELSE IF ~FitsUint8(moduleCount + 1) THEN Revert(ArithmeticPanic)
    ELSE /\ learningModules' =
                [i \in 0..moduleCount |->
                    IF i = moduleCount
                    THEN LearningModule(_name, _totalLessons, TRUE)
                    ELSE learningModules[i]]
         /\ moduleCount' = moduleCount + 1
         /\ result' = OK
         /\ logs' = <<>>
         /\ UNCHANGED <<owner, studentProgress, today, enrolledOn, activeDays>>

toggleModule(sender, _moduleId) ==
    IF ~onlyOwner(sender) THEN Revert(NotOwner)
    ELSE IF ~(_moduleId < moduleCount) THEN Revert(UnknownModule)
    ELSE /\ learningModules' =
                [learningModules EXCEPT ![_moduleId].isActive = ~@]
         /\ result' = OK
         /\ logs' = <<>>
         /\ UNCHANGED <<owner, moduleCount, studentProgress, today, enrolledOn,
                        activeDays>>

\* The next block is stamped one day later (block.timestamp never decreases).
AdvanceDay(lastDay) ==
    /\ today < lastDay
    /\ today' = today + 1
    /\ UNCHANGED <<owner, moduleCount, learningModules, studentProgress,
                   result, logs, enrolledOn, activeDays, frontend>>

\* A block stamped with any other day of a set, earlier days included: the
\* contract takes block.timestamp as it comes.
SetDay(days) ==
    /\ today' \in days \ {today}
    /\ UNCHANGED <<owner, moduleCount, learningModules, studentProgress,
                   result, logs, enrolledOn, activeDays, frontend>>

-----------------------------------------------------------------------------
(* View functions: [err |-> revert string or OK, val |-> returned value] *)

Return(v) == [err |-> OK, val |-> v]

Fail(reason) == [err |-> reason, val |-> 0]

getMyModuleProgress(sender, _moduleId) ==
    IF ~onlyEnrolled(sender) THEN Fail(NotEnrolled)
    ELSE IF ~(_moduleId < moduleCount) THEN Fail(UnknownModule)
    ELSE Return(MapGet(studentProgress[sender].moduleProgress, _moduleId))

getMyTotalProgress(sender) ==
    IF ~onlyEnrolled(sender) THEN Fail(NotEnrolled)
    ELSE Return(studentProgress[sender].totalProgress)

getMyCompletedLessons(sender) ==
    IF ~onlyEnrolled(sender) THEN Fail(NotEnrolled)
    ELSE Return(studentProgress[sender].completedLessons)

getMyLearningStreak(sender) ==
    IF ~onlyEnrolled(sender) THEN Fail(NotEnrolled)
    ELSE Return(studentProgress[sender].learningStreak)

isLessonCompleted(sender, _moduleId, _lessonId) ==
    IF ~onlyEnrolled(sender) THEN Fail(NotEnrolled)
    ELSE IF ~(_moduleId < moduleCount) THEN Fail(UnknownModule)
    ELSE IF ~(_lessonId < LESSONS_PER_MODULE) THEN Fail(UnknownLesson)
    ELSE Return(<<_moduleId, _lessonId>>
                    \in studentProgress[sender].lessonCompleted)

\* Mutant of isStudentEnrolled: the view carries the onlyEnrolled modifier.
isStudentEnrolledGuarded(_student) ==
    IF ~onlyEnrolled(_student) THEN Fail(NotEnrolled) ELSE Return(TRUE)

isStudentEnrolled(_student) == Return(studentProgress[_student].isEnrolled)

getModuleInfo(_moduleId) ==
    IF ~(_moduleId < moduleCount) THEN Fail(UnknownModule)
    ELSE Return(learningModules[_moduleId])

getTotalModules == Return(moduleCount)

-----------------------------------------------------------------------------
(* The page, public/app.js: handlers of the connected account *)

\* this.userAddress, the account of the wallet the page is connected to.
UserAddress == "alice"

\* No handler running.  `ensured` is the value the last ensureStudentEnrolled
\* returned (FALSE before any call), `viewErr` the outcome of the last
\* getMyLearningStreak call of loadBlockchainProgress; `start`, `day`,
\* `allOk` and `sameDay` describe the batch of updateProgress in flight: the
\* account's record when it was sent, the day its first transaction was
\* mined, whether all mined so far succeeded and on that same day.
FrontendIdle ==
    [pc |-> "idle", handler |-> "none", ensured |-> FALSE, viewErr |-> OK,
     module |-> 0, checkboxes |-> <<>>, pending |-> {},
     start |-> EmptyProgress, day |-> NoDay, allOk |-> TRUE, sameDay |-> TRUE]

\* A step of the page that sends nothing to the chain.
PageOnly ==
    UNCHANGED <<owner, moduleCount, learningModules, studentProgress, today,
                result, logs, enrolledOn, activeDays>>

\* updateProgress(moduleId), lines 206-214: up to `await
\* this.ensureStudentEnrolled()`, with the checkboxes of the module as they
\* stand.
updateProgress(moduleId, checkboxes) ==
    /\ frontend.pc = "idle"
    /\ frontend' = [frontend EXCEPT !.pc = "ensure",
                                    !.handler = "updateProgress",
                                    !.module = moduleId,
                                    !.checkboxes = checkboxes]
    /\ PageOnly

\* loadBlockchainProgress(), lines 268-273: up to `await
\* this.ensureStudentEnrolled()`.
loadBlockchainProgress ==
    /\ frontend.pc = "idle"
    /\ frontend' = [frontend EXCEPT !.pc = "ensure",
                                    !.handler = "loadBlockchainProgress"]
    /\ PageOnly

\* ensureStudentEnrolled(), lines 182-204, with the enrollStudent() of lines
\* 156-180 it calls.  rpcOk: the isStudentEnrolled call goes through
\* (otherwise the catch of line 200 returns false).  accepted: the
\* enrollStudent transaction is signed and mined (otherwise it is rejected
\* in the wallet or dropped; enrollStudent() catches the error, alerts and
\* returns, and line 193 returns true all the same).  updateProgress drops
\* the returned value (line 214); loadBlockchainProgress stops on false
\* (lines 273-278).
ensureStudentEnrolled(rpcOk, accepted) ==
    /\ frontend.pc = "ensure"
    /\ IF rpcOk /\ ~isStudentEnrolled(UserAddress).val /\ accepted
       THEN enrollStudent(UserAddress)
       ELSE PageOnly
    /\ frontend' =
            [frontend EXCEPT
                !.ensured = rpcOk,
                !.pc = IF frontend.handler = "updateProgress" THEN "send"
                       ELSE IF rpcOk THEN "views" ELSE "idle",
                !.handler = IF frontend.handler = "updateProgress" \/ rpcOk
                            THEN @ ELSE "none"]

\* updateProgress, lines 219-243: one completeLesson(module.id, lessonId,
\* checkbox.checked) per checkbox, none awaited before the next is sent.
updateProgressSend ==
    /\ frontend.pc = "send"
    /\ frontend' =
            [frontend EXCEPT
                !.pc = "wait",
                !.pending = {<<i - 1, frontend.checkboxes[i]>> :
                                i \in 1..Len(frontend.checkboxes)},
                !.start = studentProgress[UserAddress],
                !.day = NoDay,
                !.allOk = TRUE,
                !.sameDay = TRUE]
    /\ PageOnly

\* One of the transactions of the batch is mined, whichever the chain takes
\* next.
MineTransaction ==
    /\ frontend.pc = "wait"
    /\ \E tx \in frontend.pending :
        /\ completeLesson(UserAddress, frontend.module, tx[1], tx[2])
        /\ frontend' =
                [frontend EXCEPT
                    !.pending = @ \ {tx},
                    !.allOk = @ /\ result' = OK,
                    !.day = IF @ = NoDay THEN today ELSE @,
                    !.sameDay = @ /\ frontend.day \in {NoDay, today}]

\* updateProgress, lines 246-255: Promise.all has settled; on success the
\* handler goes on into loadBlockchainProgress, on a failure into its catch.
updateProgressSettled ==
    /\ frontend.pc = "wait"
    /\ frontend.pending = {}
    /\ frontend' =
            [FrontendIdle EXCEPT
                !.ensured = frontend.ensured,
                !.viewErr = frontend.viewErr,
                !.pc = IF frontend.allOk THEN "ensure" ELSE "idle",
                !.handler = IF frontend.allOk
                            THEN "loadBlockchainProgress" ELSE "none"]
    /\ PageOnly

\* loadBlockchainProgress, lines 280-297: the enrolled-only view calls, the
\* first of them getMyLearningStreak; a revert lands in the catch.
loadBlockchainProgressViews ==
    /\ frontend.pc = "views"
    /\ frontend' = [frontend EXCEPT
                        !.pc = "idle",
                        !.handler = "none",
                        !.viewErr = getMyLearningStreak(UserAddress).err]
    /\ PageOnly

-----------------------------------------------------------------------------
(* Specifications *)

\* State after the constructor, run by Deployer on StartDay.
Init ==
    /\ owner = Deployer
    /\ moduleCount = InitialModuleCount
    /\ learningModules = initializeModules
    /\ studentProgress = [a \in Accounts |-> EmptyProgress]
    /\ today = StartDay
    /\ result = OK
    /\ logs = <<>>
    /\ enrolledOn = [a \in Accounts |-> NoDay]
    /\ activeDays = [a \in Accounts |-> {}]
    /\ frontend = FrontendIdle

\* Arguments of the calls explored: module 0 in full (lesson id
\* LESSONS_PER_MODULE is out of range) and the first added module (id
\* InitialModuleCount, out of range until it is added).
LessonCalls ==
    ({0} \X (0..LESSONS_PER_MODULE)) \cup {<<InitialModuleCount, 0>>}

ModuleArgs == {0, InitialModuleCount}

LessonCountArgs == {3, 4}

\* Transactions sent to the contract directly, not through the page.
Enroll(S) ==
    /\ \E a \in S : enrollStudent(a)
    /\ UNCHANGED frontend

Complete(S, calls) ==
    /\ \E a \in S, mc \in calls, c \in BOOLEAN :
            completeLesson(a, mc[1], mc[2], c)
    /\ UNCHANGED frontend

AddModule(S, counts) ==
    /\ moduleCount < MaxModules
    /\ \E a \in S, n \in counts : addModule(a, "Added Module", n)
    /\ UNCHANGED frontend

ToggleModule(S, ids) ==
    /\ \E a \in S, m \in ids : toggleModule(a, m)
    /\ UNCHANGED frontend

\* One student (alice) exploring the lesson matrix, the owner administering.
Next ==
    \/ Enroll({"alice"})
    \/ Complete({"alice"}, LessonCalls)
    \/ AddModule({"owner", "alice"}, LessonCountArgs)
    \/ ToggleModule({"owner"}, ModuleArgs)
    \/ AdvanceDay(StartDay + Horizon)

Spec == Init /\ [][Next]_vars

\* Arguments of the calls explored with several accounts.
SmallCalls ==
    {<<0, 0>>, <<0, 1>>, <<0, LESSONS_PER_MODULE>>, <<InitialModuleCount, 0>>}

\* Two students (alice, bob) side by side on the constructor's catalog, the
\* owner switching module 0 off and on.
NextAccounts ==
    \/ Enroll({"alice", "bob"})
    \/ Complete({"alice", "bob"}, SmallCalls)
    \/ ToggleModule({"owner"}, {0})
    \/ AdvanceDay(StartDay + Horizon)

SpecAccounts == Init /\ [][NextAccounts]_vars

\* Arguments of the calls explored over a long run of days.
StreakCalls == {<<0, 0>>, <<0, 1>>}

\* One student (alice) over StreakHorizon days, module 0 switched on and off.
NextStreak ==
    \/ Enroll({"alice"})
    \/ Complete({"alice"}, StreakCalls)
    \/ ToggleModule({"owner"}, {0})
    \/ AdvanceDay(StartDay + StreakHorizon)

SpecStreak == Init /\ [][NextStreak]_vars

\* addModule with no bound but the contract's own.
AddModuleUnbounded(S, counts) ==
    /\ \E a \in S, n \in counts : addModule(a, "Added Module", n)
    /\ UNCHANGED frontend

\* Module ids toggled while the catalog fills: the first module and the last
\* one the catalog can hold.
CatalogToggleArgs == {0, MaxModuleCount - 1}

\* The catalog filled to the contract's limit, by the owner and (in vain) by
\* alice, with the first and the last module switched off and on.
NextCatalog ==
    \/ AddModuleUnbounded({"owner", "alice"}, {LESSONS_PER_MODULE})
    \/ ToggleModule({"owner"}, CatalogToggleArgs)

SpecCatalog == Init /\ [][NextCatalog]_vars

\* Arguments of the calls explored while the catalog is administered: a
\* lesson of module 0, the lesson id past the constant's range, and lesson 3
\* of the first added module.
AdminCalls ==
    {<<0, 0>>, <<0, LESSONS_PER_MODULE>>,
     <<InitialModuleCount, LESSONS_PER_MODULE - 1>>}

\* Lesson counts passed to addModule: none, fewer than the constant, and the
\* constant.
AdminCountArgs == {0, 3, LESSONS_PER_MODULE}

\* The owner and alice both calling the owner-only functions, alice also
\* enrolled as a student.
NextAdmin ==
    \/ Enroll({"alice"})
    \/ Complete({"alice"}, AdminCalls)
    \/ AddModule({"owner", "alice"}, AdminCountArgs)
    \/ ToggleModule({"owner", "alice"}, ModuleArgs)

SpecAdmin == Init /\ [][NextAdmin]_vars

\* The days a block can be stamped with when the clock is not trusted.
ClockDays == StartDay..(StartDay + ClockHorizon)

\* One student (alice) under a clock that can also move back.
NextClock ==
    \/ Enroll({"alice"})
    \/ Complete({"alice"}, StreakCalls)
    \/ SetDay(ClockDays)

SpecClock == Init /\ [][NextClock]_vars

\* The checkbox rows the page submits: all four lessons ticked, a mixed
\* row and none ticked.
CheckboxArgs ==
    {<<TRUE, TRUE, TRUE, TRUE>>, <<FALSE, TRUE, FALSE, TRUE>>,
     <<FALSE, FALSE, FALSE, FALSE>>}

\* The page of alice against the contract, the days passing meanwhile.
NextFrontend ==
    \/ \E cb \in CheckboxArgs : updateProgress(0, cb)
    \/ loadBlockchainProgress
    \/ \E rpcOk \in BOOLEAN, accepted \in BOOLEAN :
            ensureStudentEnrolled(rpcOk, accepted)
    \/ updateProgressSend
    \/ MineTransaction
    \/ updateProgressSettled
    \/ loadBlockchainProgressViews
    \/ AdvanceDay(StartDay + Horizon)

SpecFrontend == Init /\ [][NextFrontend]_vars

\* Lessons of every module of the constructor's catalog: the first two
\* modules in full, the first half of the third, the last lesson of the last.
ReferenceCalls ==
    ({0, 1} \X (0..(LESSONS_PER_MODULE - 1)))
        \cup {<<2, 0>>, <<2, 1>>,
              <<InitialModuleCount - 1, LESSONS_PER_MODULE - 1>>}

\* The catalog as the constructor leaves it (no addModule): one student
\* (alice) setting and unsetting any of its lessons.
NextReference ==
    \/ Enroll({"alice"})
    \/ Complete({"alice"}, ReferenceCalls)

SpecReference == Init /\ [][NextReference]_vars

\* Lesson count of the modules added while the catalog fills: one more than
\* the constant.
CapacityLessonCount == LESSONS_PER_MODULE + 1

\* Arguments of the calls explored while the catalog fills: a lesson of
\* module 0, the last lesson of the first added module and the last lesson
\* under the constant of the last module the catalog can hold.
CapacityCalls ==
    {<<0, 0>>, <<InitialModuleCount, CapacityLessonCount - 1>>,
     <<MaxModuleCount - 1, LESSONS_PER_MODULE - 1>>}

\* The catalog filled to the contract's limit by the owner, one student
\* (alice) enrolling and completing lessons at any size of it.
NextCapacity ==
    \/ AddModuleUnbounded({"owner"}, {CapacityLessonCount})
    \/ Enroll({"alice"})
    \/ Complete({"alice"}, CapacityCalls)

SpecCapacity == Init /\ [][NextCapacity]_vars

-----------------------------------------------------------------------------
(* Properties *)

\* Argument values the properties quantify over: in range, at the edge of the
\* range and beyond it.
ProbeIds == {0, LESSONS_PER_MODULE - 1, LESSONS_PER_MODULE, MaxModuleCount}

\* Lessons of module m stored true in a lesson matrix.
TrueCount(flags, m) == Cardinality({p \in flags : p[1] = m})

\* Every enrolled-only view function fails with NotEnrolled for account a.
AllQueriesNotEnrolled(a) ==
    /\ getMyTotalProgress(a) = Fail(NotEnrolled)
    /\ getMyCompletedLessons(a) = Fail(NotEnrolled)
    /\ getMyLearningStreak(a) = Fail(NotEnrolled)
    /\ \A m \in ProbeIds :
        /\ getMyModuleProgress(a, m) = Fail(NotEnrolled)
        /\ \A l \in ProbeIds : isLessonCompleted(a, m, l) = Fail(NotEnrolled)

\* C1: until enrollStudent has succeeded for an account, completeLesson by it
\* and each of getMyTotalProgress, getMyModuleProgress, getMyCompletedLessons,
\* getMyLearningStreak and isLessonCompleted fail with "Student not enrolled",
\* whatever the arguments and whatever the other accounts have done.
C1_NotEnrolledUntilEnroll ==
    /\ [](\A a \in Accounts : enrolledOn[a] = NoDay => AllQueriesNotEnrolled(a))
    /\ [][\A a \in Accounts :
            enrolledOn[a] = NoDay =>
                \A mc \in SmallCalls, c \in BOOLEAN :
                    completeLesson(a, mc[1], mc[2], c)
                        => (result' = NotEnrolled
                            /\ studentProgress' = studentProgress)]_vars

\* C1 witness: bob, never enrolled, has just been refused after alice has
\* enrolled and recorded a completion.
C1_Witness ==
    /\ result = NotEnrolled
    /\ enrolledOn["bob"] = NoDay
    /\ enrolledOn["alice"] # NoDay
    /\ studentProgress["alice"].completedLessons > 0

\* C2: enrollStudent by an already enrolled account fails with "Already
\* enrolled" and leaves the account's whole record as it was.
C2_SecondEnrollRefused ==
    [][\A a \in Accounts :
        (studentProgress[a].isEnrolled /\ enrollStudent(a))
            => (result' = AlreadyEnrolled
                /\ studentProgress'[a] = studentProgress[a])]_vars

\* C2 witness: a second enrollStudent was refused for an account that had
\* recorded a completion and advanced its streak since enrolling.
C2_Witness ==
    /\ result = AlreadyEnrolled
    /\ \E a \in Accounts :
        /\ studentProgress[a].isEnrolled
        /\ studentProgress[a].completedLessons > 0
        /\ studentProgress[a].learningStreak > 0
        /\ \A b \in Accounts \ {a} : ~studentProgress[b].isEnrolled

\* C3 (as claimed): every enrolled account's moduleProgress, totalProgress and
\* completedLessons agree with its lesson matrix and the current catalog.
C3_DerivedFieldsConsistent ==
    \A a \in Accounts :
        studentProgress[a].isEnrolled =>
            LET p == studentProgress[a]
            IN  /\ \A m \in 0..(moduleCount - 1) :
                    learningModules[m].totalLessons > 0 =>
                        MapGet(p.moduleProgress, m) =
                            (FullProgress * TrueCount(p.lessonCompleted, m))
                                \div learningModules[m].totalLessons
                /\ p.totalProgress =
                        SumProgress(p.moduleProgress, moduleCount)
                            \div moduleCount
                /\ p.completedLessons = Cardinality(p.lessonCompleted)

\* A step that leaves the clock alone is a transaction (enrollStudent,
\* completeLesson, addModule or toggleModule); only AdvanceDay moves the clock.
AnyCall == today' = today

\* C4: a failing enrollStudent, completeLesson, addModule or toggleModule
\* leaves the catalog and every account's record as they were and emits no
\* event.
C4_FailuresAtomic ==
    [][(AnyCall /\ result' # OK)
        => (/\ logs' = <<>>
            /\ UNCHANGED <<owner, moduleCount, learningModules,
                           studentProgress>>)]_vars

\* C4 witness: a completeLesson was refused on a deactivated module for a
\* student with recorded progress, after a module was added.
C4_Witness ==
    /\ result = ModuleInactive
    /\ logs = <<>>
    /\ moduleCount > InitialModuleCount
    /\ \E a \in Accounts : studentProgress[a].completedLessons > 0

\* C5: for a module with totalLessons = 4, an enrolled account with k
\* distinct lessons of the module completed has moduleProgress 25 * k
\* (25, 50, 75, 100 for k = 1..4).
C5_QuarterSteps ==
    \A a \in Accounts :
        studentProgress[a].isEnrolled =>
            \A m \in 0..(moduleCount - 1) :
                learningModules[m].totalLessons = 4 =>
                    LET k == TrueCount(studentProgress[a].lessonCompleted, m)
                        mp == getMyModuleProgress(a, m).val
                    IN  /\ k \in 0..4
                        /\ mp = 25 * k
                        /\ (k = 1 => mp = 25)
                        /\ (k = 2 => mp = 50)
                        /\ (k = 3 => mp = 75)
                        /\ (k = 4 => mp = 100)

\* C5 witness: all four lessons of module 0 were completed, the last call
\* completing lesson 3.
C5_Witness ==
    /\ TrueCount(studentProgress["alice"].lessonCompleted, 0) = 4
    /\ logs # <<>>
    /\ logs[1] = LessonCompleted("alice", 0, 3)

\* The accounts that are enrolled.
Students == {a \in Accounts : studentProgress[a].isEnrolled}

\* Event e is in the receipt log.
Emitted(log, e) == \E i \in 1..Len(log) : log[i] = e

\* The step is a transaction that succeeded and left the catalog alone.
Succeeds ==
    /\ today' = today
    /\ result' = OK
    /\ UNCHANGED <<moduleCount, learningModules>>

\* The step is completeLesson(m, l, c) by the enrolled account a.
Completes(a, m, l, c) ==
    /\ studentProgress'[a].lessonCompleted =
            FlagPut(studentProgress[a].lessonCompleted, m, l, c)
    /\ completeLesson(a, m, l, c)

\* C6 (as claimed): a successful completeLesson emits ModuleCompleted exactly
\* when it takes the module's progress from below 100 to 100.
C6_ModuleCompletedOnTransitionOnly ==
    [][Succeeds => \A a \in Students, mc \in LessonCalls, c \in BOOLEAN :
        Completes(a, mc[1], mc[2], c) =>
            (Emitted(logs', ModuleCompleted(a, mc[1]))
                <=> (/\ getMyModuleProgress(a, mc[1]).val < 100
                     /\ MapGet(studentProgress'[a].moduleProgress, mc[1])
                            = 100))]_vars

\* C6 (amended): a successful completeLesson emits ModuleCompleted exactly
\* when the module's progress is 100 after the call, whether the call reached
\* 100 or left a complete module complete.
C6_ModuleCompletedWheneverFull ==
    [][Succeeds => \A a \in Students, mc \in LessonCalls, c \in BOOLEAN :
        Completes(a, mc[1], mc[2], c) =>
            (Emitted(logs', ModuleCompleted(a, mc[1]))
                <=> MapGet(studentProgress'[a].moduleProgress, mc[1])
                        = 100)]_vars

\* C6 witness: the last call stored lesson 0 of module 0 and ModuleCompleted
\* was emitted for the module.
C6_Witness ==
    /\ Len(logs) = 3
    /\ logs[1] = LessonCompleted("alice", 0, 0)
    /\ logs[2] = ModuleCompleted("alice", 0)
    /\ getMyModuleProgress("alice", 0) = Return(100)

\* The streak scenario for account a: completed=true calls on day 10, then
\* also on day 11, then also on day 15, and no other day.
StreakScenario(a) ==
    LET p == studentProgress[a]
        days == activeDays[a]
    IN  /\ days = {10} => (p.learningStreak = 1 /\ p.lastActiveDay = 10)
        /\ days = {10, 11} => (p.learningStreak = 2 /\ p.lastActiveDay = 11)
        /\ days = {10, 11, 15} =>
                (p.learningStreak = 1 /\ p.lastActiveDay = 15)

\* A further completed=true call on day 15 leaves the streak at 1.
SecondCallSameDay(a) ==
    \A mc \in StreakCalls :
        (/\ activeDays[a] = {10, 11, 15}
         /\ today = 15
         /\ Succeeds
         /\ Completes(a, mc[1], mc[2], TRUE))
            => (/\ studentProgress'[a].learningStreak = 1
                /\ studentProgress'[a].lastActiveDay = 15)

\* C7 (as claimed): the streak scenario holds whatever day <= 10 the account
\* enrolled on.
C7_StreakScenarioAnyEnrollDay ==
    \A a \in Accounts : StreakScenario(a)

\* C7 (amended): the streak scenario holds for an account enrolled before
\* day 10: day 10 gives streak 1 and lastActiveDay 10, day 11 streak 2, day
\* 15 streak 1 and lastActiveDay 15, a second call on day 15 leaves it at 1.
C7_StreakScenarioEnrolledBefore ==
    /\ [](\A a \in Accounts : enrolledOn[a] < 10 => StreakScenario(a))
    /\ [][\A a \in Accounts : enrolledOn[a] < 10 => SecondCallSameDay(a)]_vars

\* C7 witness: alice, enrolled before day 10, has completed on days 10, 11
\* and 15, it is day 15 and the last call was hers.
C7_Witness ==
    /\ enrolledOn["alice"] # NoDay
    /\ enrolledOn["alice"] < 10
    /\ activeDays["alice"] = {10, 11, 15}
    /\ today = 15
    /\ studentProgress["alice"].learningStreak = 1
    /\ logs # <<>>
    /\ logs[1] = LessonCompleted("alice", 0, 1)

\* C8: a successful completeLesson emits LessonCompleted, then ModuleCompleted
\* if the recomputed moduleProgress is 100, then ProgressUpdated, and nothing
\* else; a successful enrollStudent emits exactly one StudentEnrolled.
C8_EventOrder ==
    [][/\ Succeeds => \A a \in Students, mc \in LessonCalls, c \in BOOLEAN :
            Completes(a, mc[1], mc[2], c) =>
                logs' =
                    <<LessonCompleted(a, mc[1], mc[2])>>
                    \o (IF MapGet(studentProgress'[a].moduleProgress, mc[1])
                            = 100
                        THEN <<ModuleCompleted(a, mc[1])>>
                        ELSE <<>>)
                    \o <<ProgressUpdated(a)>>
       /\ Succeeds => \A a \in Accounts :
            enrollStudent(a) => logs' = <<StudentEnrolled(a)>>]_vars

\* C8 witness: a receipt with the three events in order.
C8_Witness ==
    logs = <<LessonCompleted("alice", 0, 2), ModuleCompleted("alice", 0),
             ProgressUpdated("alice")>>

\* moduleProgress of every module, totalProgress and completedLessons.
Aggregates(p) ==
    <<[m \in 0..(moduleCount - 1) |-> MapGet(p.moduleProgress, m)],
      p.totalProgress, p.completedLessons>>

\* The last transaction was a successful completeLesson(m, l, c) by a.
JustCompleted(a, m, l, c) ==
    /\ result = OK
    /\ logs # <<>>
    /\ logs[1] = LessonCompleted(a, m, l)
    /\ (<<m, l>> \in studentProgress[a].lessonCompleted) = c

\* C9: completeLesson(m, l, c) called again with the same arguments right
\* after it succeeded leaves moduleProgress of every module, totalProgress
\* and completedLessons as the first call left them.
C9_RecomputeIdempotent ==
    [][\A a \in Accounts, mc \in LessonCalls, c \in BOOLEAN :
        (/\ JustCompleted(a, mc[1], mc[2], c)
         /\ today' = today
         /\ completeLesson(a, mc[1], mc[2], c))
            => (/\ result' = OK
                /\ Aggregates(studentProgress'[a])
                        = Aggregates(studentProgress[a]))]_vars

\* C9 witness: completeLesson(0, 0, true) succeeded with another lesson of
\* the module and a lesson of an added module already completed.
C9_Witness ==
    /\ JustCompleted("alice", 0, 0, TRUE)
    /\ studentProgress["alice"].completedLessons = 3
    /\ getMyModuleProgress("alice", 0) = Return(50)
    /\ moduleCount > InitialModuleCount

\* The effect claimed for unsetting lesson l of module m, completed so far.
UnsetEffect(a, m, l) ==
    LET p == studentProgress[a]
        q == studentProgress'[a]
    IN  /\ result' = OK
        /\ <<m, l>> \notin q.lessonCompleted
        /\ q.completedLessons = p.completedLessons - 1
        /\ MapGet(q.moduleProgress, m) < MapGet(p.moduleProgress, m)
        /\ learningModules[m].totalLessons = 4 =>
                MapGet(q.moduleProgress, m) = MapGet(p.moduleProgress, m) - 25
        /\ q.totalProgress =
                SumProgress(q.moduleProgress, moduleCount) \div moduleCount

RECURSIVE PercentSum(_, _)
\* Sum of getMyModuleProgress(i) of account a over the modules i < n.
PercentSum(a, n) ==
    IF n = 0 THEN 0
    ELSE PercentSum(a, n - 1) + getMyModuleProgress(a, n - 1).val

\* The last transaction was a successful completeLesson by account a.
LastCompletedBy(a) ==
    /\ result = OK
    /\ logs # <<>>
    /\ logs[1][1] = "LessonCompleted"
    /\ logs[1][2] = a

\* C11: right after every successful completeLesson the caller's
\* totalProgress is the sum of its per-module percentages divided by
\* moduleCount, rounded down; with the four constructor modules, module 0 at
\* 100 and the other three at 0, it is 25.
C11_TruncatingMean ==
    \A a \in Accounts :
        LastCompletedBy(a) =>
            /\ getMyTotalProgress(a).val =
                    PercentSum(a, moduleCount) \div moduleCount
            /\ (/\ moduleCount = 4
                /\ getMyModuleProgress(a, 0).val = 100
                /\ \A m \in 1..3 : getMyModuleProgress(a, m).val = 0)
                    => getMyTotalProgress(a) = Return(25)

\* C11 witness: the call that completed module 0 of the four constructor
\* modules left totalProgress at 25.
C11_Witness ==
    /\ LastCompletedBy("alice")
    /\ moduleCount = 4
    /\ getMyModuleProgress("alice", 0) = Return(100)
    /\ getMyTotalProgress("alice") = Return(25)

\* A successful completeLesson left a sum of percentages that moduleCount
\* does not divide (25 over four modules gives 6).
C11_WitnessTruncated ==
    /\ LastCompletedBy("alice")
    /\ PercentSum("alice", moduleCount) % moduleCount # 0

\* C12 (as claimed): for a module with totalLessons = 3, an enrolled account
\* with 1, 2 or 3 lessons of the module completed has moduleProgress 33, 66
\* or 100: 100 * k divided by the module's own totalLessons, rounded down.
C12_ThirdSteps ==
    \A a \in Accounts :
        studentProgress[a].isEnrolled =>
            \A m \in 0..(moduleCount - 1) :
                learningModules[m].totalLessons = 3 =>
                    LET k == TrueCount(studentProgress[a].lessonCompleted, m)
                        mp == getMyModuleProgress(a, m).val
                    IN  /\ (k = 1 => mp = 33)
                        /\ (k = 2 => mp = 66)
                        /\ (k = 3 => mp = 100)
                        /\ mp = (FullProgress * k) \div 3

\* C13: isStudentEnrolled(account) never fails, for an enrolled account or
\* one never seen, and returns true exactly when an enrollStudent by that
\* account has succeeded earlier; it is true right after a successful
\* enrollStudent.
C13_EnrolledQueryTotal ==
    \A a \in Accounts :
        /\ isStudentEnrolled(a).err = OK
        /\ isStudentEnrolled(a).val = (enrolledOn[a] # NoDay)
        /\ (result = OK /\ logs = <<StudentEnrolled(a)>>)
                => isStudentEnrolled(a) = Return(TRUE)

\* C13 witness: alice has just enrolled, bob and the owner never have; the
\* query answers for all three.
C13_Witness ==
    /\ result = OK
    /\ logs = <<StudentEnrolled("alice")>>
    /\ isStudentEnrolled("alice") = Return(TRUE)
    /\ isStudentEnrolled("bob") = Return(FALSE)
    /\ isStudentEnrolled("owner") = Return(FALSE)

InvalidLessonCount == "Invalid lesson count"

\* C15 (as claimed): addModule(_, 0) by the owner fails with
\* InvalidLessonCount and leaves the catalog unchanged, so no module of the
\* catalog ever has totalLessons = 0.
C15_ZeroLessonCountRefused ==
    /\ [][\A a \in Accounts :
            (onlyOwner(a) /\ today' = today /\ addModule(a, "Added Module", 0))
                => (/\ result' = InvalidLessonCount
                    /\ UNCHANGED <<moduleCount, learningModules>>)]_vars
    /\ [](\A m \in 0..(moduleCount - 1) : learningModules[m].totalLessons > 0)

\* The step changes the catalog.
CatalogChanges ==
    <<moduleCount, learningModules>>' # <<moduleCount, learningModules>>

\* C16: the owner is the deployer in every state; addModule and toggleModule
\* called by any other account fail and leave the catalog and every
\* account's record unchanged; the catalog changes only in an addModule or
\* toggleModule step of the owner.
C16_OwnerOnlyAdministration ==
    /\ [](owner = Deployer)
    /\ [][\A a \in Accounts \ {Deployer} :
            (\/ \E n \in AdminCountArgs : addModule(a, "Added Module", n)
             \/ \E m \in ModuleArgs : toggleModule(a, m))
                => (/\ result' = NotOwner
                    /\ logs' = <<>>
                    /\ UNCHANGED <<owner, moduleCount, learningModules,
                                   studentProgress>>)]_vars
    /\ [][CatalogChanges =>
            (\/ \E n \in AdminCountArgs : addModule(Deployer, "Added Module", n)
             \/ \E m \in ModuleArgs : toggleModule(Deployer, m))]_vars

\* C16 witness: alice, an enrolled student with recorded progress, was
\* refused as a non-owner after the owner had added a module and switched
\* module 0 off.
C16_Witness ==
    /\ result = NotOwner
    /\ owner = Deployer
    /\ moduleCount > InitialModuleCount
    /\ ~learningModules[0].isActive
    /\ studentProgress["alice"].completedLessons > 0

\* C17: an account whose isEnrolled flag is true keeps it true in every
\* later state, whatever any account, the owner included, does next.
C17_EnrolledIsTerminal ==
    /\ [][\A a \in Accounts :
            studentProgress[a].isEnrolled => studentProgress'[a].isEnrolled]_vars
    /\ [](\A a \in Accounts :
            enrolledOn[a] # NoDay => isStudentEnrolled(a) = Return(TRUE))

\* C17 witness: alice is still enrolled a day after enrolling, after
\* completing a lesson, a refused second enrollStudent, an addModule and a
\* toggleModule of the owner.
C17_Witness ==
    /\ studentProgress["alice"].isEnrolled
    /\ today > enrolledOn["alice"]
    /\ studentProgress["alice"].completedLessons > 0
    /\ result = AlreadyEnrolled
    /\ moduleCount > InitialModuleCount
    /\ ~learningModules[0].isActive

\* The lesson ids of a module.
LessonIds == 0..(LESSONS_PER_MODULE - 1)

\* What account a reads of module m.
ModuleReads(a, m) ==
    <<getMyModuleProgress(a, m),
      [l \in LessonIds |-> isLessonCompleted(a, m, l)]>>

\* C18: while module m is inactive every completeLesson on it by an enrolled
\* account, completed true or false, fails with "Module not active", and a
\* call on an active module succeeds, so switching the module back on
\* re-enables writes; getMyModuleProgress(m) and isLessonCompleted(m, l)
\* succeed whether m is active or not and keep their values through
\* toggleModule and for as long as m is inactive; the lessons of inactive
\* modules count in totalProgress and completedLessons.
C18_InactiveBlocksWritesOnly ==
    /\ [](\A a \in Students, m \in 0..(moduleCount - 1) :
            /\ getMyModuleProgress(a, m).err = OK
            /\ \A l \in LessonIds :
                /\ isLessonCompleted(a, m, l) =
                        Return(<<m, l>> \in studentProgress[a].lessonCompleted)
                /\ completeLessonRequire(a, m, l) =
                        IF learningModules[m].isActive
                        THEN OK ELSE ModuleInactive)
    /\ [](\A a \in Students :
            LastCompletedBy(a) =>
                /\ getMyTotalProgress(a).val =
                        PercentSum(a, moduleCount) \div moduleCount
                /\ getMyCompletedLessons(a).val =
                        Cardinality(studentProgress[a].lessonCompleted))
    /\ [][\A a \in Students, m \in 0..(moduleCount - 1) :
            /\ ~learningModules'[m].isActive
                    => ModuleReads(a, m)' = ModuleReads(a, m)
            /\ (/\ today' = today
                /\ ~learningModules[m].isActive
                /\ \E l \in LessonIds, c \in BOOLEAN :
                        completeLesson(a, m, l, c))
                    => (result' = ModuleInactive
                        /\ studentProgress' = studentProgress)]_vars

\* C18 witness: a completeLesson on the deactivated module 0 was refused
\* while alice reads 50 percent for it and its two lessons are part of her
\* three completed lessons and of her totalProgress, (50 + 25) / 5 = 15.
C18_Witness ==
    /\ result = ModuleInactive
    /\ ~learningModules[0].isActive
    /\ getMyModuleProgress("alice", 0) = Return(50)
    /\ isLessonCompleted("alice", 0, 1) = Return(TRUE)
    /\ getMyCompletedLessons("alice") = Return(3)
    /\ getMyTotalProgress("alice") = Return(15)

\* The calls of a student: enrollStudent() and completeLesson(m, l, c).
StudentOps ==
    {<<"enrollStudent">>}
        \cup {<<"completeLesson", mc[1], mc[2], c>> :
                    mc \in SmallCalls, c \in BOOLEAN}

\* The step is the call op by account a: it ends as the requires of the
\* call decide, with the call's event first in the receipt when it succeeds.
IsCall(a, op) ==
    IF op[1] = "enrollStudent"
    THEN /\ result' = IF studentProgress[a].isEnrolled
                      THEN AlreadyEnrolled ELSE OK
         /\ result' = OK => logs' = <<StudentEnrolled(a)>>
         /\ enrollStudent(a)
    ELSE /\ result' = completeLessonRequire(a, op[2], op[3])
         /\ result' = OK =>
                (logs' # <<>> /\ logs'[1] = LessonCompleted(a, op[2], op[3]))
         /\ completeLesson(a, op[2], op[3], op[4])

\* The records that the call op by account a leaves when it starts from the
\* records sp: sp itself when a require fails.
StorageAfter(sp, a, op) ==
    IF op[1] = "enrollStudent"
    THEN IF sp[a].isEnrolled THEN sp ELSE enrollStudentWrites(sp, a)
    ELSE IF /\ sp[a].isEnrolled
            /\ op[2] < moduleCount
            /\ op[3] < LESSONS_PER_MODULE
            /\ learningModules[op[2]].isActive
         THEN completeLessonWrites(sp, a, op[2], op[3], op[4])
         ELSE sp

\* C19: an enrollStudent or completeLesson call by one account, successful
\* or failing, leaves every field of every other account's record (and the
\* catalog) unchanged, and a call by alice and a call by bob leave the same
\* records whichever of them runs first.
C19_AccountsIndependent ==
    /\ [][today' = today =>
            \A a \in Accounts, op \in StudentOps :
                IsCall(a, op) =>
                    /\ \A b \in Accounts \ {a} :
                            studentProgress'[b] = studentProgress[b]
                    /\ studentProgress' = StorageAfter(studentProgress, a, op)
                    /\ UNCHANGED <<owner, moduleCount, learningModules>>]_vars
    /\ [](\A opA, opB \in StudentOps :
            StorageAfter(StorageAfter(studentProgress, "alice", opA),
                         "bob", opB)
                = StorageAfter(StorageAfter(studentProgress, "bob", opB),
                               "alice", opA))

\* C19 witness: bob has just completed a lesson, a day after alice's last
\* completion, and their records differ in progress, streak day and
\* enrollment day.
C19_Witness ==
    /\ LastCompletedBy("bob")
    /\ studentProgress["alice"].completedLessons = 2
    /\ studentProgress["bob"].completedLessons = 1
    /\ studentProgress["alice"].lastActiveDay
            < studentProgress["bob"].lastActiveDay
    /\ enrolledOn["alice"] < enrolledOn["bob"]

\* Preconditions of completeLesson(m, l, _) by a that do not hold, as the
\* specification states them: the lesson bound is the module's own
\* totalLessons; the last two are judged only for a module of the catalog.
Violated(a, m, l) ==
    (IF isStudentEnrolled(a).val THEN {} ELSE {NotEnrolled})
        \cup (IF getModuleInfo(m).err # OK THEN {UnknownModule}
              ELSE (IF l < getModuleInfo(m).val.totalLessons
                    THEN {} ELSE {UnknownLesson})
                   \cup (IF getModuleInfo(m).val.isActive
                         THEN {} ELSE {ModuleInactive}))

\* The earliest of a set of failures in the order NotEnrolled, UnknownModule,
\* UnknownLesson, ModuleInactive.
Earliest(failures) ==
    IF NotEnrolled \in failures THEN NotEnrolled
    ELSE IF UnknownModule \in failures THEN UnknownModule
    ELSE IF UnknownLesson \in failures THEN UnknownLesson
    ELSE ModuleInactive

\* C20 (as claimed): a completeLesson call that violates several
\* preconditions at once fails with the earliest of NotEnrolled,
\* UnknownModule, UnknownLesson, ModuleInactive that applies.
C20_EarliestFailureWins ==
    /\ [](\A a \in Accounts, m \in ProbeIds \cup {InitialModuleCount},
             l \in ProbeIds :
            Cardinality(Violated(a, m, l)) >= 2 =>
                completeLessonRequire(a, m, l) = Earliest(Violated(a, m, l)))
    /\ [][\A a \in Accounts, mc \in AdminCalls, c \in BOOLEAN :
            (/\ Cardinality(Violated(a, mc[1], mc[2])) >= 2
             /\ completeLesson(a, mc[1], mc[2], c))
                => result' = Earliest(Violated(a, mc[1], mc[2]))]_vars

\* The same order with the lesson bound the contract applies, the constant
\* LESSONS_PER_MODULE for every module.
ViolatedFixedBound(a, m, l) ==
    (IF isStudentEnrolled(a).val THEN {} ELSE {NotEnrolled})
        \cup (IF getModuleInfo(m).err # OK THEN {UnknownModule}
              ELSE (IF l < LESSONS_PER_MODULE THEN {} ELSE {UnknownLesson})
                   \cup (IF getModuleInfo(m).val.isActive
                         THEN {} ELSE {ModuleInactive}))

\* With the constant lesson bound the first failing require wins in every
\* state, for every argument probed.
EarliestFailureWinsFixedBound ==
    \A a \in Accounts, m \in ProbeIds \cup {InitialModuleCount},
       l \in ProbeIds :
        completeLessonRequire(a, m, l) =
            IF ViolatedFixedBound(a, m, l) = {} THEN OK
            ELSE Earliest(ViolatedFixedBound(a, m, l))

\* C21 (as claimed): for every module m of the catalog, completeLesson and
\* isLessonCompleted of an enrolled account accept lesson id l exactly when
\* l < totalLessons of m, and fail with "Invalid lesson ID" otherwise.
C21_LessonBoundIsModulesOwn ==
    /\ [](\A a \in Students, m \in 0..(moduleCount - 1), l \in ProbeIds :
            LET inRange == l < learningModules[m].totalLessons
            IN  /\ (isLessonCompleted(a, m, l).err = UnknownLesson) <=> ~inRange
                /\ (completeLessonRequire(a, m, l) = UnknownLesson) <=> ~inRange
                /\ inRange => isLessonCompleted(a, m, l).err = OK)
    /\ [][\A a \in Students, mc \in AdminCalls, c \in BOOLEAN :
            (mc[1] < moduleCount /\ completeLesson(a, mc[1], mc[2], c))
                => ((result' = UnknownLesson)
                        <=> ~(mc[2] < learningModules[mc[1]].totalLessons))]_vars

\* The step is a successful completeLesson by account a.
CompletionBy(a) ==
    /\ today' = today
    /\ result' = OK
    /\ logs' # <<>>
    /\ logs'[1][1] = "LessonCompleted"
    /\ logs'[1][2] = a

\* The _completed argument of the successful completeLesson step of a: the
\* value the step stored for the lesson named in its LessonCompleted event.
CompletedArg(a) ==
    <<logs'[1][3], logs'[1][4]>> \in studentProgress'[a].lessonCompleted

\* The stored pair (learningStreak, lastActiveDay) of a record.
StreakPair(p) == <<p.learningStreak, p.lastActiveDay>>

\* C22: a successful completeLesson on day t by an account with stored
\* (learningStreak s, lastActiveDay d) leaves (s, d) if _completed is false
\* or t <= d, (s + 1, t) if _completed and t = d + 1, and (1, t) if
\* _completed and t > d + 1; no other step changes the pair of an enrolled
\* account.
C22_StreakTransition ==
    [][\A a \in Students :
        LET s == studentProgress[a].learningStreak
            d == studentProgress[a].lastActiveDay
            t == today
        IN  StreakPair(studentProgress'[a]) =
                IF CompletionBy(a) /\ CompletedArg(a) /\ t > d
                THEN IF t = d + 1 THEN <<s + 1, t>> ELSE <<1, t>>
                ELSE <<s, d>>]_vars

\* C22 witness: alice's streak was reset to 1 by a completion today, after
\* a gap, having reached 2 on consecutive days before.
C22_Witness ==
    /\ LastCompletedBy("alice")
    /\ StreakPair(studentProgress["alice"]) = <<1, today>>
    /\ \E d \in activeDays["alice"] :
        /\ d + 1 \in activeDays["alice"]
        /\ d > enrolledOn["alice"]
        /\ d + 2 < today
        /\ \A e \in (d + 2)..(today - 1) : e \notin activeDays["alice"]

\* C23: lastActiveDay of an enrolled account never decreases, whatever the
\* step, and a successful completeLesson on a day earlier than the stored
\* lastActiveDay changes neither learningStreak nor lastActiveDay.
C23_LastActiveDayMonotone ==
    [][\A a \in Students :
        /\ studentProgress'[a].lastActiveDay >= studentProgress[a].lastActiveDay
        /\ (CompletionBy(a) /\ today < studentProgress[a].lastActiveDay)
                => StreakPair(studentProgress'[a])
                        = StreakPair(studentProgress[a])]_vars

\* C23 witness: alice enrolled, reached streak 1 on a later day, and has
\* since completed a lesson with _completed = true on a day before her
\* enrollment day, which is where the clock stands.
C23_Witness ==
    /\ LastCompletedBy("alice")
    /\ today < enrolledOn["alice"]
    /\ today \in activeDays["alice"]
    /\ StreakPair(studentProgress["alice"]) = <<1, enrolledOn["alice"] + 1>>

\* C24: enrollStudent by an account that is not enrolled succeeds and leaves
\* a record with isEnrolled true, moduleProgress 0 for every module,
\* totalProgress, completedLessons and learningStreak 0, every lesson flag
\* false and lastActiveDay the day of the call.
C24_FreshRecord ==
    [][today' = today =>
        \A a \in Accounts \ Students :
            enrollStudent(a) =>
                /\ result' = OK
                /\ isStudentEnrolled(a)' = Return(TRUE)
                /\ getMyTotalProgress(a)' = Return(0)
                /\ getMyCompletedLessons(a)' = Return(0)
                /\ getMyLearningStreak(a)' = Return(0)
                /\ \A m \in 0..(moduleCount - 1) :
                    /\ getMyModuleProgress(a, m)' = Return(0)
                    /\ \A l \in LessonIds :
                            isLessonCompleted(a, m, l)' = Return(FALSE)
                /\ studentProgress'[a] =
                        [EmptyProgress EXCEPT !.isEnrolled = TRUE,
                                              !.lastActiveDay = today]]_vars

\* C24 witness: alice has just enrolled, a day after deployment and with a
\* fifth module in the catalog.
C24_Witness ==
    /\ result = OK
    /\ logs = <<StudentEnrolled("alice")>>
    /\ enrolledOn["alice"] = today
    /\ today > StartDay
    /\ moduleCount > InitialModuleCount
    /\ studentProgress["alice"].lastActiveDay = today

\* The step is the successful call completeLesson(m, l, c) by account a.
CallCompletes(a, m, l, c) ==
    /\ logs' # <<>>
    /\ logs'[1] = LessonCompleted(a, m, l)
    /\ completeLesson(a, m, l, c)

\* C25: a successful completeLesson(m, l, c) makes isLessonCompleted(m, l)
\* return c and leaves every other lesson flag of the caller, the
\* moduleProgress of every module other than m, the caller's isEnrolled flag
\* and the catalog unchanged.
C25_CompletionFrame ==
    [][(today' = today /\ result' = OK) =>
        \A a \in Students, mc \in LessonCalls, c \in BOOLEAN :
            CallCompletes(a, mc[1], mc[2], c) =>
                LET p == studentProgress[a]
                    q == studentProgress'[a]
                IN  /\ isLessonCompleted(a, mc[1], mc[2])' = Return(c)
                    /\ q.lessonCompleted \ {mc} = p.lessonCompleted \ {mc}
                    /\ MapPut(q.moduleProgress, mc[1], 0)
                            = MapPut(p.moduleProgress, mc[1], 0)
                    /\ \A m \in 0..(moduleCount - 1) :
                            m # mc[1] =>
                                getMyModuleProgress(a, m)'
                                    = getMyModuleProgress(a, m)
                    /\ q.isEnrolled
                    /\ UNCHANGED <<moduleCount, learningModules>>]_vars

\* C25 witness: alice has just completed lesson 1 of module 0 with lesson 0
\* of that module and lesson 0 of the added module completed before.
C25_Witness ==
    /\ JustCompleted("alice", 0, 1, TRUE)
    /\ isLessonCompleted("alice", 0, 0) = Return(TRUE)
    /\ isLessonCompleted("alice", InitialModuleCount, 0) = Return(TRUE)
    /\ getMyModuleProgress("alice", InitialModuleCount) = Return(25)

RECURSIVE BatchInOrder(_, _, _, _, _)
\* The records left by completeLesson(m, l, cb[l + 1]) of account a for the
\* lessons l = 0 .. n - 1 in that order, all succeeding, from the records sp.
BatchInOrder(sp, a, m, cb, n) ==
    IF n = 0 THEN sp
    ELSE completeLessonWrites(BatchInOrder(sp, a, m, cb, n - 1),
                              a, m, n - 1, cb[n])

\* The batch of updateProgress has been mined entirely, every transaction
\* succeeding, all on the day the clock still shows.
BatchSucceededToday ==
    /\ frontend.pc = "wait"
    /\ frontend.pending = {}
    /\ frontend.allOk
    /\ frontend.sameDay
    /\ frontend.day = today

\* C26: when the completeLesson transactions that updateProgress sends for
\* one module (one per lesson, not awaited one after the other) all succeed
\* on the same day, the account's record is the one that mining them in
\* lesson order gives, whatever the order they were mined in, and each
\* lesson flag equals its checkbox.
C26_BatchOrderIrrelevant ==
    BatchSucceededToday =>
        /\ studentProgress[UserAddress] =
                BatchInOrder(
                    [studentProgress EXCEPT ![UserAddress] = frontend.start],
                    UserAddress, frontend.module, frontend.checkboxes,
                    Len(frontend.checkboxes))[UserAddress]
        /\ \A l \in LessonIds :
                isLessonCompleted(UserAddress, frontend.module, l) =
                    Return(frontend.checkboxes[l + 1])

\* C26 witness: the mixed row was mined in full a day after the account's
\* last active day, over a record that had all four lessons completed.
C26_Witness ==
    /\ BatchSucceededToday
    /\ frontend.checkboxes = <<FALSE, TRUE, FALSE, TRUE>>
    /\ TrueCount(frontend.start.lessonCompleted, 0) = LESSONS_PER_MODULE
    /\ frontend.start.lastActiveDay < today
    /\ studentProgress[UserAddress].learningStreak
            = frontend.start.learningStreak + 1
    /\ getMyModuleProgress(UserAddress, 0) = Return(50)

\* C27: for every enrolled account the streak is at most the number of days
\* between the enrollment day and lastActiveDay, and it is 0 exactly when
\* lastActiveDay is still the enrollment day.
C27_StreakBoundedByElapsedDays ==
    \A a \in Students :
        /\ studentProgress[a].learningStreak
                <= studentProgress[a].lastActiveDay - enrolledOn[a]
        /\ (studentProgress[a].learningStreak = 0)
                <=> (studentProgress[a].lastActiveDay = enrolledOn[a])

\* C27 witness: alice completed a lesson on her enrollment day and on each
\* of the two days after it; her streak is 2, the days elapsed.
C27_Witness ==
    /\ studentProgress["alice"].isEnrolled
    /\ {enrolledOn["alice"], enrolledOn["alice"] + 1, enrolledOn["alice"] + 2}
            \subseteq activeDays["alice"]
    /\ studentProgress["alice"].lastActiveDay = enrolledOn["alice"] + 2
    /\ studentProgress["alice"].learningStreak = 2

\* C28: ensureStudentEnrolled returns true only if the connected account is
\* enrolled, so the page never has enrolled-only calls under way for an
\* account that is not enrolled: no completeLesson batch sent or waiting to
\* be mined, no view call of loadBlockchainProgress about to be made or
\* answered with "Student not enrolled".
C28_EnsuredMeansEnrolled ==
    /\ frontend.ensured => isStudentEnrolled(UserAddress).val
    /\ frontend.pc \in {"send", "wait", "views"}
            => isStudentEnrolled(UserAddress).val
    /\ frontend.viewErr # NotEnrolled

\* C29: on the constructor's catalog (4 modules of 4 lessons, no addModule)
\* the two truncations lose nothing: for every enrolled account the module
\* percentages add up to 25 * completedLessons, totalProgress is
\* floor(100 * completedLessons / 16), totalProgress lies in 0..100 and
\* completedLessons in 0..16.
C29_ReferenceMeanExact ==
    \A a \in Students :
        LET p == studentProgress[a]
            lessons == InitialModuleCount * LESSONS_PER_MODULE
        IN  /\ moduleCount = InitialModuleCount
            /\ LessonShare * p.completedLessons
                    = PercentSum(a, InitialModuleCount)
            /\ p.totalProgress
                    = (FullProgress * p.completedLessons) \div lessons
            /\ p.totalProgress \in 0..FullProgress
            /\ p.completedLessons \in 0..lessons

\* C29 witness: alice has 7 lessons completed, spread over all four modules;
\* the percentages add up to 175 and totalProgress is 43, the floor of both
\* 175 / 4 and 700 / 16.
C29_Witness ==
    /\ studentProgress["alice"].isEnrolled
    /\ studentProgress["alice"].completedLessons = 7
    /\ \A m \in 0..(InitialModuleCount - 1) :
            TrueCount(studentProgress["alice"].lessonCompleted, m) > 0
    /\ PercentSum("alice", InitialModuleCount) = 175
    /\ studentProgress["alice"].totalProgress = 43

\* No transaction has stopped on an arithmetic overflow or a division by
\* zero.
ArithmeticNeverPanics == result \notin {ArithmeticPanic, DivisionPanic}

\* C30: at every catalog size addModule can reach, enrollStudent by an
\* account that is not enrolled succeeds, and completeLesson by an enrolled
\* account succeeds when the module id is below moduleCount, the lesson id
\* below the module's own totalLessons and the module active; in particular
\* no counter or accumulator overflows.
C30_OnlyListedFailures ==
    [][/\ \A a \in Accounts \ Students :
            enrollStudent(a) => result' = OK
       /\ \A a \in Students, mc \in CapacityCalls, c \in BOOLEAN :
            (/\ mc[1] < moduleCount
             /\ mc[2] < learningModules[mc[1]].totalLessons
             /\ learningModules[mc[1]].isActive
             /\ completeLesson(a, mc[1], mc[2], c))
                => result' = OK]_vars

\* With the lesson id below the constant LESSONS_PER_MODULE, the bound the
\* contract checks, completeLesson by an enrolled account on an active module
\* succeeds at every catalog size.
CompletionSucceedsUnderConstantBound ==
    [][\A a \in Students, mc \in CapacityCalls, c \in BOOLEAN :
            (/\ mc[1] < moduleCount
             /\ mc[2] < LESSONS_PER_MODULE
             /\ learningModules[mc[1]].isActive
             /\ completeLesson(a, mc[1], mc[2], c))
                => result' = OK]_vars

====
